---- MODULE Spec2Model ----
(***************************************************************************)
(* A model of PIDPlatformController                                        *)
(* (nyansat/station/controller/pid_controller.py): the setpoint store with *)
(* its deadzone gate, the timer-driven dual-axis PID tick, orient(), the   *)
(* three sensor calibrations and the two servo range sweeps.               *)
(*                                                                         *)
(* Angles are whole degrees.  PID gains and PID outputs are kept in halves *)
(* (a stored 3 is 1.5) so that int() in the tick is a real truncation.     *)
(* The sweep's motion threshold d is kept in halves of a degree as well    *)
(* (the default d = .5 is stored as 1).                                    *)
(***************************************************************************)
EXTENDS Integers, Sequences, FiniteSets, TLC

VARIABLES
    deadzone,           \* self.deadzone: <<>> models None, else a list of <<lo, hi>>
    new_azimuth,        \* self.new_azimuth
    new_elevation,      \* self.new_elevation
    azimuth_pid,        \* self.azimuth_pid: [setpoint, integral, last_input]
    elevation_pid,      \* self.elevation_pid
    pid_config,         \* [limits, p, i, d]: the constructor's arguments
    timer_armed,        \* self.pid_loop_timer: TRUE between init() and deinit()
    azimuth,            \* self.azimuth: the servo [pos, min, max, min_us, max_us]
    elevation,          \* self.elevation
    imu,                \* self.imu: [azimuth, elevation, mode, status, polls_left]
    pc,                 \* where the command context is
    loc,                \* the locals of the procedure the command context is in
    duty,               \* the last tick's [el, az] relative steps, <<>> before any
    clock,              \* time.time(), in whole time units
    hist                \* history: the last step taken, with its arguments or results

vars == << deadzone, new_azimuth, new_elevation, azimuth_pid, elevation_pid,
           pid_config, timer_armed, azimuth, elevation, imu, pc, loc, duty, clock, hist >>

\* ------------------------------------------------------------------ bounds

\* The maximum position of both servos as the controller finds them.
MaxServo == 1
\* The sweep's sensor reads one of 359, 0, .., MaxReading - 1 degrees.
MaxReading == 2
\* The simulated sensor turns by 1..MaxSimRate degrees per moving step.
MaxSimRate == 2
\* A sensor under calibration reports less than 3 on at most MaxPolls polls.
MaxPolls == 3
\* The clock stops here.
MaxClock == 4
\* The sensor under the magnetometer's raster reports less than 3 on
\* RasterPolls polls.
RasterPolls == 100

\* ------------------------------------------------------- program constants

FullCircle == 360
HalfCircle == 180
NominalMin == 0
NominalMax == 4095
SweepMargin == 100
DefaultUs == 100
\* d = .5, in halves of a degree
DefaultD2 == 1
FullConfidence == 3
PerturbInterval == 2
RasterSteps == 8

\* ----------------------------------------------------------------- helpers

Abs(x) == IF x < 0 THEN -x ELSE x

\* Python's int() of the quotient x / n (n > 0): truncation toward zero.
IntDiv(x, n) == IF x >= 0 THEN x \div n ELSE -((-x) \div n)

Clamp(x, lo, hi) == IF x < lo THEN lo ELSE IF x > hi THEN hi ELSE x

\* ------------------------------------------------------------- ServoController
\* motor.motor.ServoController is not part of the source at hand: the
\* capability is modelled from its interface (absolute and relative moves
\* are clamped to [min, max]).

ServoInit(lo, hi) ==
    [pos |-> lo, min |-> lo, max |-> hi, min_us |-> <<>>, max_us |-> <<>>]

servo_set_position(s, p) == [s EXCEPT !.pos = Clamp(p, s.min, s.max)]

servo_step(s, d) == [s EXCEPT !.pos = Clamp(s.pos + d, s.min, s.max)]

\* ------------------------------------------------------------------------ PID
\* simple_pid.PID: output = clamp(P + I + D), the integral clamped as well,
\* the derivative taken on the measurement.  One tick is one unit of time.
\* Gains, integral and output are in halves.

DefaultLimits == << -20, 20 >>

DefaultConfig == [limits |-> DefaultLimits, p |-> 2, i |-> 0, d |-> 0]

\* A controller constructed with limits that are not symmetric about 0 and
\* with fractional gains on all three terms.
SkewConfig == [limits |-> << -1, 3 >>, p |-> 1, i |-> 1, d |-> 1]

Configs == {DefaultConfig, SkewConfig}

PIDNew(setpoint) == [setpoint |-> setpoint, integral |-> 0, last_input |-> <<>>]

\* The output, in halves, of pid(input) under configuration cfg.
PIDOutput(pid, cfg, input) ==
    LET error == pid.setpoint - input
        d_input == IF pid.last_input = <<>> THEN 0 ELSE input - pid.last_input[1]
        lo2 == 2 * cfg.limits[1]
        hi2 == 2 * cfg.limits[2]
        integral == Clamp(pid.integral + cfg.i * error, lo2, hi2)
    IN  Clamp(cfg.p * error + integral - cfg.d * d_input, lo2, hi2)

\* The PID object after pid(input).
PIDCall(pid, cfg, input) ==
    LET error == pid.setpoint - input
        lo2 == 2 * cfg.limits[1]
        hi2 == 2 * cfg.limits[2]
    IN  [pid EXCEPT !.integral = Clamp(pid.integral + cfg.i * error, lo2, hi2),
                    !.last_input = << input >>]

\* ------------------------------------------------------------------- inputs

AzReadings == {30, 300}
ElReadings == {0, 45}
AzCommands == {30, 100, 330}
ElCommands == {90}

\* --------------------------------------------------------------- construction

NoDeadzone == <<>>

NoLocals == [op |-> "none"]

\* imu.imu.ImuController, with the record a test double keeps of the calls
\* made to it: how many of each, and their arguments and results.
ImuInit(az, el) ==
    [azimuth |-> az, elevation |-> el, mode |-> "ndof", status |-> 0, polls_left |-> 0,
     steady |-> FALSE,
     calls |-> [prepare |-> 0, mode |-> 0, save |-> 0, poll |-> 0],
     prepare_ret |-> <<>>, mode_arg |-> <<>>, saved |-> <<>>, save_result |-> <<>>]

\* __init__: both servos to int((max - min) / 2), setpoints 0, the two PIDs.
ConstructWith(cfg, imu0, el0, az0) ==
    /\ deadzone = NoDeadzone
    /\ timer_armed = FALSE
    /\ elevation = servo_set_position(el0, IntDiv(el0.max - el0.min, 2))
    /\ azimuth = servo_set_position(az0, IntDiv(az0.max - az0.min, 2))
    /\ new_elevation = 0
    /\ new_azimuth = 0
    /\ pid_config = cfg
    /\ elevation_pid = PIDNew(0)
    /\ azimuth_pid = PIDNew(0)
    /\ imu = imu0
    /\ duty = <<>>
    /\ clock = 0
    /\ hist = [last |-> "init", arg |-> <<>>, stopped |-> FALSE]

\* The controller built on two servos of range 0..MaxServo.
Construct(cfg, imu0) ==
    ConstructWith(cfg, imu0, ServoInit(0, MaxServo), ServoInit(0, MaxServo))

Init ==
    /\ \E az0 \in AzReadings, el0 \in ElReadings : Construct(DefaultConfig, ImuInit(az0, el0))
    /\ pc = "idle"
    /\ loc = NoLocals

\* ------------------------------------------------------------ setpoint store

\* set_azimuth with the interval test closed at its endpoints.
AzimuthRejectedClosed(dz, x) ==
    \/ dz = NoDeadzone
    \/ \E k \in 1..Len(dz) : dz[k][1] <= x /\ x <= dz[k][2]

\* set_azimuth's two early returns: no deadzone yet, or azimuth strictly
\* inside one of its intervals.
AzimuthRejected(dz, x) ==
    \/ dz = NoDeadzone
    \/ \E k \in 1..Len(dz) : dz[k][1] < x /\ x < dz[k][2]

\* self.new_azimuth after set_azimuth(x).
set_azimuth(dz, cur, x) == IF AzimuthRejected(dz, x) THEN cur ELSE x

\* self.new_elevation after set_elevation(e).
set_elevation(cur, e) == e

Called(name, arg) == [hist EXCEPT !.last = name, !.arg = arg]

SetAzimuth ==
    /\ pc = "idle"
    /\ \E x \in AzCommands :
          /\ new_azimuth' = set_azimuth(deadzone, new_azimuth, x)
          /\ hist' = Called("set_azimuth", << x >>)
    /\ UNCHANGED << clock, deadzone, new_elevation, azimuth_pid, elevation_pid, pid_config,
                    timer_armed, azimuth, elevation, imu, pc, loc, duty >>

SetElevation ==
    /\ pc = "idle"
    /\ \E e \in ElCommands :
          /\ new_elevation' = set_elevation(new_elevation, e)
          /\ hist' = Called("set_elevation", << e >>)
    /\ UNCHANGED << clock, deadzone, new_azimuth, azimuth_pid, elevation_pid, pid_config,
                    timer_armed, azimuth, elevation, imu, pc, loc, duty >>

\* set_coordinates checking the azimuth first and giving up when it is rejected.
SetCoordinatesAzimuthFirst ==
    /\ pc = "idle"
    /\ \E x \in AzCommands, e \in ElCommands :
          /\ new_azimuth' = set_azimuth(deadzone, new_azimuth, x)
          /\ new_elevation' = IF AzimuthRejected(deadzone, x) THEN new_elevation
                                ELSE set_elevation(new_elevation, e)
          /\ hist' = Called("set_coordinates", << x, e >>)
    /\ UNCHANGED << clock, deadzone, azimuth_pid, elevation_pid, pid_config,
                    timer_armed, azimuth, elevation, imu, pc, loc, duty >>

\* set_coordinates: set_elevation(elevation), then set_azimuth(azimuth).
SetCoordinates ==
    /\ pc = "idle"
    /\ \E x \in AzCommands, e \in ElCommands :
          /\ new_elevation' = set_elevation(new_elevation, e)
          /\ new_azimuth' = set_azimuth(deadzone, new_azimuth, x)
          /\ hist' = Called("set_coordinates", << x, e >>)
    /\ UNCHANGED << clock, deadzone, azimuth_pid, elevation_pid, pid_config,
                    timer_armed, azimuth, elevation, imu, pc, loc, duty >>

\* ------------------------------------------------------------ the PID loop

\* start_pid_loop keeping the setpoints it finds.
StartReadKeepsSetpoints ==
    /\ pc = "idle"
    /\ azimuth_pid' = [azimuth_pid EXCEPT !.setpoint = new_azimuth]
    /\ elevation_pid' = [elevation_pid EXCEPT !.setpoint = new_elevation]
    /\ loc' = [op |-> "start", azimuth |-> imu.azimuth, elevation |-> imu.elevation]
    /\ pc' = "start_arm"
    /\ hist' = Called("start_read", <<>>)
    /\ UNCHANGED << clock, deadzone, new_azimuth, new_elevation, pid_config, timer_armed,
                    azimuth, elevation, imu, duty >>

\* start_pid_loop, lines 113-116: both setpoints and both PID setpoints are
\* overwritten with the sensor's readings.
StartRead ==
    /\ pc = "idle"
    /\ new_elevation' = imu.elevation
    /\ new_azimuth' = imu.azimuth
    /\ azimuth_pid' = [azimuth_pid EXCEPT !.setpoint = new_azimuth']
    /\ elevation_pid' = [elevation_pid EXCEPT !.setpoint = new_elevation']
    /\ loc' = [op |-> "start", azimuth |-> imu.azimuth, elevation |-> imu.elevation]
    /\ pc' = "start_arm"
    /\ hist' = Called("start_read", <<>>)
    /\ UNCHANGED << clock, deadzone, pid_config, timer_armed, azimuth, elevation, imu, duty >>

\* start_pid_loop, line 117: pid_loop_timer.init(...), and start() returns.
StartArm ==
    /\ pc = "start_arm"
    /\ timer_armed' = TRUE
    /\ pc' = "idle"
    /\ loc' = NoLocals
    /\ hist' = [Called("start", << loc.azimuth, loc.elevation >>) EXCEPT !.stopped = FALSE]
    /\ UNCHANGED << clock, deadzone, new_azimuth, new_elevation, azimuth_pid, elevation_pid,
                    pid_config, azimuth, elevation, imu, duty >>

\* stop_pid_loop leaving the timer as it is.
stop_pid_loop_keeps_timer == timer_armed' = timer_armed

\* stop_pid_loop: pid_loop_timer.deinit().
stop_pid_loop == timer_armed' = FALSE

Stop ==
    /\ pc = "idle"
    /\ stop_pid_loop
    /\ hist' = [Called("stop", <<>>) EXCEPT !.stopped = TRUE]
    /\ UNCHANGED << clock, deadzone, new_azimuth, new_elevation, azimuth_pid, elevation_pid,
                    pid_config, azimuth, elevation, imu, pc, loc, duty >>

\* el_duty = int(self.elevation_pid(_elevation)), from the output in halves.
ElDuty(out2) == IntDiv(out2, 2)

\* az_duty without the change of sign.
AzDutyNotNegated(out2) == IntDiv(out2, 2)

\* az_duty = int(self.azimuth_pid(_azimuth)) * -1
AzDuty(out2) == IntDiv(out2, 2) * (-1)

\* A tick that leaves the PID's setpoint as it finds it.
TickSetpointStale(pid, target) == pid

\* self.elevation_pid.setpoint = self.new_elevation, and the same for azimuth.
TickSetpoint(pid, target) == [pid EXCEPT !.setpoint = target]

\* __pid_loop, the timer's callback: it preempts the command context
\* wherever that is, and runs to its end.
Tick ==
    /\ timer_armed
    /\ LET epid == TickSetpoint(elevation_pid, new_elevation)
           apid == TickSetpoint(azimuth_pid, new_azimuth)
           el_duty == ElDuty(PIDOutput(epid, pid_config, imu.elevation))
           az_duty == AzDuty(PIDOutput(apid, pid_config, imu.azimuth))
       IN  /\ elevation_pid' = PIDCall(epid, pid_config, imu.elevation)
           /\ azimuth_pid' = PIDCall(apid, pid_config, imu.azimuth)
           /\ elevation' = servo_step(elevation, el_duty)
           /\ azimuth' = servo_step(azimuth, az_duty)
           /\ duty' = [el |-> el_duty, az |-> az_duty]
    /\ hist' = Called("tick", <<>>)
    /\ UNCHANGED << clock, deadzone, new_azimuth, new_elevation, pid_config, timer_armed,
                    imu, pc, loc >>

\* The platform moves, or the sensor drifts: the readings change.
SensorChange ==
    /\ \E az \in AzReadings, el \in ElReadings :
          /\ << az, el >> # << imu.azimuth, imu.elevation >>
          /\ imu' = [imu EXCEPT !.azimuth = az, !.elevation = el]
    /\ hist' = Called("sensor", <<>>)
    /\ UNCHANGED << clock, deadzone, new_azimuth, new_elevation, azimuth_pid, elevation_pid,
                    pid_config, timer_armed, azimuth, elevation, pc, loc, duty >>

\* ---------------------------------------------------------------------- orient

\* orient() taking equal readings for a wrapped arc too.
OrientDeadzoneWrapOnEqual(min_azimuth, max_azimuth) ==
    IF min_azimuth >= max_azimuth
    THEN << << min_azimuth, FullCircle >>, << 0, max_azimuth >> >>
    ELSE << << min_azimuth, max_azimuth >> >>

\* The deadzone orient() stores for the two readings.
OrientDeadzone(min_azimuth, max_azimuth) ==
    IF min_azimuth > max_azimuth
    THEN << << min_azimuth, FullCircle >>, << 0, max_azimuth >> >>
    ELSE << << min_azimuth, max_azimuth >> >>

\* azimuth.set_position(azimuth.get_min_position()); time.sleep(1)
OrientBegin ==
    /\ pc = "idle"
    /\ azimuth' = servo_set_position(azimuth, azimuth.min)
    /\ loc' = [op |-> "orient", min_cmd |-> azimuth.min]
    /\ pc' = "orient_min"
    /\ hist' = Called("orient_begin", <<>>)
    /\ UNCHANGED << clock, deadzone, new_azimuth, new_elevation, azimuth_pid, elevation_pid,
                    pid_config, timer_armed, elevation, imu, duty >>

\* min_azimuth = imu.get_azimuth(); azimuth.set_position(max); time.sleep(1)
OrientReadMin ==
    /\ pc = "orient_min"
    /\ azimuth' = servo_set_position(azimuth, azimuth.max)
    /\ loc' = [op |-> "orient", min_cmd |-> loc.min_cmd, min_azimuth |-> imu.azimuth,
               max_cmd |-> azimuth.max]
    /\ pc' = "orient_max"
    /\ hist' = Called("orient_read_min", <<>>)
    /\ UNCHANGED << clock, deadzone, new_azimuth, new_elevation, azimuth_pid, elevation_pid,
                    pid_config, timer_armed, elevation, imu, duty >>

\* max_azimuth = imu.get_azimuth(); the deadzone is stored and returned.
OrientFinish ==
    /\ pc = "orient_max"
    /\ deadzone' = OrientDeadzone(loc.min_azimuth, imu.azimuth)
    /\ loc' = NoLocals
    /\ pc' = "idle"
    /\ hist' = Called("orient", [min_cmd |-> loc.min_cmd, min_azimuth |-> loc.min_azimuth,
                                 max_cmd |-> loc.max_cmd, max_azimuth |-> imu.azimuth,
                                 ret |-> deadzone'])
    /\ UNCHANGED << clock, new_azimuth, new_elevation, azimuth_pid, elevation_pid,
                    pid_config, timer_armed, azimuth, elevation, imu, duty >>

Next ==
    \/ SetAzimuth
    \/ SetElevation
    \/ SetCoordinates
    \/ StartRead
    \/ StartArm
    \/ Stop
    \/ Tick
    \/ SensorChange
    \/ OrientBegin
    \/ OrientReadMin
    \/ OrientFinish

Spec == Init /\ [][Next]_vars

\* ------------------------------------------------------- the PID loop alone
\* The controller after orient(), start() and set_coordinates(az, el), for
\* every configuration, every commanded pair and every (constant) reading;
\* from there on only the timer fires.

PidAzSetpoints == {0, 1, 30}
PidElSetpoints == {0, 1, 45}
PidAzReadings == {0, 300}
PidElReadings == {0, 44}

InitPid ==
    \E cfg \in Configs, sp_az \in PidAzSetpoints, sp_el \in PidElSetpoints,
       m_az \in PidAzReadings, m_el \in PidElReadings :
        /\ deadzone = OrientDeadzone(m_az, m_az)
        /\ timer_armed = TRUE
        /\ elevation = servo_set_position(ServoInit(0, MaxServo), IntDiv(MaxServo - 0, 2))
        /\ azimuth = servo_set_position(ServoInit(0, MaxServo), MaxServo)
        /\ new_elevation = set_elevation(m_el, sp_el)
        /\ new_azimuth = set_azimuth(deadzone, m_az, sp_az)
        /\ pid_config = cfg
        /\ elevation_pid = PIDNew(m_el)
        /\ azimuth_pid = PIDNew(m_az)
        /\ imu = ImuInit(m_az, m_el)
        /\ pc = "idle"
        /\ loc = NoLocals
        /\ duty = <<>>
        /\ clock = 0
        /\ hist = [last |-> "set_coordinates", arg |-> << sp_az, sp_el >>, stopped |-> FALSE]

NextPid == Tick

SpecPid == InitPid /\ [][NextPid]_vars

\* ------------------------------------------------------------------ get_delta

\* get_delta without abs().
get_delta_signed(current, prev) ==
    LET d == current - prev
    IN  IF d > HalfCircle THEN FullCircle - d ELSE d

\* get_delta(current, prev): the difference in the angle.
get_delta(current, prev) ==
    LET d == Abs(current - prev)
    IN  IF d > HalfCircle THEN FullCircle - d ELSE d

\* get_delta called with every pair of angles of [0, 360).
InitDelta ==
    /\ Construct(DefaultConfig, ImuInit(0, 0))
    /\ pc = "delta_call"
    /\ \E current \in 0..(FullCircle - 1), prev \in 0..(FullCircle - 1) :
          loc = [op |-> "get_delta", current |-> current, prev |-> prev]

GetDelta ==
    /\ pc = "delta_call"
    /\ pc' = "idle"
    /\ loc' = NoLocals
    /\ hist' = Called("get_delta", [current |-> loc.current, prev |-> loc.prev,
                                    ret |-> get_delta(loc.current, loc.prev)])
    /\ UNCHANGED << clock, deadzone, new_azimuth, new_elevation, azimuth_pid, elevation_pid,
                    pid_config, timer_armed, azimuth, elevation, imu, duty >>

NextDelta == GetDelta

SpecDelta == InitDelta /\ [][NextDelta]_vars

\* ------------------------------------------------------- servo range sweeps
\* auto_calibrate_elevation_servo and auto_calibrate_azimuth_servo, which
\* differ in the servo they sweep, the sensor axis they read and the moves
\* they make before the sweep.

Axes == {"elevation", "azimuth"}
UsValues == {DefaultUs, 1000}
DValues == {DefaultD2, 2}
SweepReadings == {(FullCircle - 1 + k) % FullCircle : k \in 0..MaxReading}
SimBases == {0, 350}

\* The simulated sensor's turn, in steps, on a command of cmd: none below
\* 500, one step from 500 up to but excluding 3500, none from 3500 on.
SimDelta(cmd) == IF cmd < 500 THEN 0 ELSE IF cmd < 3500 THEN 1 ELSE 0

\* What the sensor can read once the servo has been commanded to cmd and has
\* settled, having read `before` last.
SensorAfter(l, cmd, before) ==
    IF l.sim THEN {(before + SimDelta(cmd) * l.rate) % FullCircle} ELSE SweepReadings

\* The branch without the confirming second step.
SweepBranchUnconfirmed(delta, d2, first_move, moving) ==
    IF 2 * delta > d2 /\ ~moving THEN "moving"
    ELSE IF 2 * delta < d2 /\ moving THEN "stop_check"
    ELSE "none"

\* Which branch of the loop body a step takes (lines 276, 283, 290).
SweepBranch(delta, d2, first_move, moving) ==
    IF 2 * delta > d2 /\ ~first_move THEN "first_move"
    ELSE IF 2 * delta > d2 /\ first_move /\ ~moving THEN "moving"
    ELSE IF 2 * delta < d2 /\ moving THEN "stop_check"
    ELSE "none"

\* self.elevation.min_us = i + 100
SweepMinUs(i) == i + SweepMargin

\* self.elevation.max_us = i - 100
SweepMaxUs(i) == i - SweepMargin

\* The value of i a for loop that did not advance past a transient step
\* would take next.
SweepNextStuck(i, us, transient) == IF transient THEN i ELSE i + us

\* for i in range(min, max, us): the value after i, whatever the body did.
SweepNext(i, us, transient) == i + us

\* The call auto_calibrate_<axis>_servo(us, d) on a constructed controller.
SweepCall(axis, us, d2, sim, rate, r0) ==
    /\ Construct(DefaultConfig, ImuInit(r0, r0))
    /\ pc = "sweep_call"
    /\ loc = [op |-> "sweep", axis |-> axis, us |-> us, d2 |-> d2, sim |-> sim, rate |-> rate]

InitSweep ==
    \E axis \in Axes, us \in UsValues, d2 \in DValues, r0 \in SweepReadings :
        SweepCall(axis, us, d2, FALSE, 0, r0)

InitSweepSim ==
    \E axis \in Axes, rate \in 1..MaxSimRate, r0 \in SimBases :
        SweepCall(axis, DefaultUs, DefaultD2, TRUE, rate, r0)

\* Lines 263-268 and 310-316: the flags, the bounds of the swept servo reset
\* to 0..4095, the moves before the sweep, and the settle delay.
SweepBegin ==
    /\ pc = "sweep_call"
    /\ IF loc.axis = "elevation"
       THEN LET e1 == [elevation EXCEPT !.min = NominalMin, !.max = NominalMax]
                mid == IntDiv(azimuth.max - azimuth.min, 2)
            IN  /\ elevation' = servo_set_position(e1, mid)
                /\ azimuth' = azimuth
                /\ hist' = Called("sweep_begin",
                                  [axis |-> loc.axis,
                                   commanded |-> << << "elevation", mid >> >>])
       ELSE LET a1 == [azimuth EXCEPT !.min = NominalMin, !.max = NominalMax]
                mid == IntDiv(a1.max - a1.min, 2)
            IN  /\ elevation' = servo_set_position(elevation, mid)
                /\ azimuth' = servo_set_position(a1, mid)
                /\ hist' = Called("sweep_begin",
                                  [axis |-> loc.axis,
                                   commanded |-> << << "elevation", mid >>,
                                                    << "azimuth", mid >> >>])
    /\ loc' = [op |-> "sweep", axis |-> loc.axis, us |-> loc.us, d2 |-> loc.d2,
               sim |-> loc.sim, rate |-> loc.rate, moving |-> FALSE, first_move |-> FALSE]
    /\ pc' = "sweep_settle"
    /\ UNCHANGED << clock, deadzone, new_azimuth, new_elevation, azimuth_pid, elevation_pid,
                    pid_config, timer_armed, imu, duty >>

\* Lines 269-270 and 317-319: the baseline reading, and the range of the loop.
SweepBaseline ==
    /\ pc = "sweep_settle"
    /\ LET s == IF loc.axis = "elevation" THEN elevation ELSE azimuth
       IN  /\ loc' = [op |-> "sweep", axis |-> loc.axis, us |-> loc.us, d2 |-> loc.d2,
                      sim |-> loc.sim, rate |-> loc.rate, moving |-> loc.moving,
                      first_move |-> loc.first_move, prev |-> imu[loc.axis],
                      i |-> s.min, stop |-> s.max]
           /\ pc' = IF s.min < s.max THEN "sweep_loop" ELSE "idle"
    /\ hist' = Called("sweep_baseline", [axis |-> loc.axis, prev |-> imu[loc.axis]])
    /\ UNCHANGED << clock, deadzone, new_azimuth, new_elevation, azimuth_pid, elevation_pid,
                    pid_config, timer_armed, azimuth, elevation, imu, duty >>

\* One pass of the loop body, lines 271-301 and 320-350, for the value i.
SweepStep ==
    /\ pc = "sweep_loop"
    /\ LET l == loc
           s0 == IF l.axis = "elevation" THEN elevation ELSE azimuth
           s1 == servo_set_position(s0, l.i)
       IN  \E current \in SensorAfter(l, l.i, imu[l.axis]) :
             LET delta == get_delta(current, l.prev)
                 branch == SweepBranch(delta, l.d2, l.first_move, l.moving)
             IN  \E again \in (IF branch = "stop_check"
                               THEN SensorAfter(l, l.i + SweepMargin, current)
                               ELSE {current}) :
                   LET try_again_delta == get_delta(again, current)
                       transient == branch = "stop_check" /\ 2 * try_again_delta > l.d2
                       accepted == branch = "stop_check" /\ ~transient
                       s3 == servo_set_position(s1, l.i + SweepMargin)
                       s2 == IF branch = "moving"
                               THEN [s1 EXCEPT !.min_us = << SweepMinUs(l.i) >>]
                             ELSE IF accepted
                               THEN [s3 EXCEPT !.max_us = << SweepMaxUs(l.i) >>]
                             ELSE IF transient THEN s3
                             ELSE s1
                       exhausted == ~accepted /\ SweepNext(l.i, l.us, transient) >= l.stop
                   IN  /\ IF l.axis = "elevation"
                          THEN elevation' = s2 /\ azimuth' = azimuth
                          ELSE azimuth' = s2 /\ elevation' = elevation
                       /\ imu' = [imu EXCEPT ![l.axis] = again]
                       /\ pc' = IF accepted \/ exhausted THEN "idle" ELSE "sweep_loop"
                       /\ loc' = IF accepted \/ exhausted THEN NoLocals
                                 ELSE [l EXCEPT !.first_move = (@ \/ branch = "first_move"),
                                                !.moving = (@ \/ branch = "moving"),
                                                !.prev = IF transient THEN @ ELSE current,
                                                !.i = SweepNext(@, l.us, transient)]
                       /\ hist' = Called(IF accepted THEN "sweep_return"
                                         ELSE IF exhausted THEN "sweep_exhausted"
                                         ELSE "sweep_step",
                                         [axis |-> l.axis, us |-> l.us, i |-> l.i,
                                          branch |-> branch, transient |-> transient,
                                          moving |-> l.moving \/ branch = "moving"])
    /\ UNCHANGED << clock, deadzone, new_azimuth, new_elevation, azimuth_pid, elevation_pid,
                    pid_config, timer_armed, duty >>

NextSweep ==
    \/ SweepBegin
    \/ SweepBaseline
    \/ SweepStep

\* A sweep with any reading at every step.
SpecSweep == InitSweep /\ [][NextSweep]_vars

\* A sweep that is carried on: the command context is never held up for ever.
SpecSweepFair == InitSweep /\ [][NextSweep]_vars /\ WF_vars(NextSweep)

\* A sweep with the default parameters against the simulated sensor.
SpecSweepSim == InitSweepSim /\ [][NextSweep]_vars

\* --------------------------------------------------------- sensor calibration
\* auto_calibrate_accelerometer, auto_calibrate_magnetometer and
\* auto_calibrate_gyroscope.  The sensor reports a confidence below 3 on
\* polls_left polls and 3 from then on.

Kinds == {"accelerometer", "magnetometer", "gyroscope"}
PriorModes == {"ndof", "compass"}
CalibrationMode == "calibration"

\* imu.prepare_calibration(): the sensor goes to its calibration mode and
\* returns the mode it was in.
imu_prepare_calibration(m) ==
    [m EXCEPT !.mode = CalibrationMode, !.prepare_ret = << m.mode >>,
              !.calls.prepare = @ + 1]

\* imu.mode(mode)
imu_mode(m, mode) ==
    [m EXCEPT !.mode = mode, !.mode_arg = << mode >>, !.calls.mode = @ + 1]

\* The sensor after a poll of its status that returns level.
imu_polled(m, level) ==
    [m EXCEPT !.status = level, !.calls.poll = @ + 1,
              !.polls_left = IF @ > 0 THEN @ - 1 ELSE 0]

\* The levels a poll of the status can return: 3 once the sensor has got
\* there, and below 3 before, the same at every poll for a steady sensor.
PollLevels(m) ==
    IF m.polls_left = 0 THEN {FullConfidence}
    ELSE IF m.steady THEN {m.status}
    ELSE 0..(FullConfidence - 1)

\* imu.save_<kind>_calibration() returning result.
imu_save_calibration(m, kind, result) ==
    [m EXCEPT !.saved = << kind >>, !.save_result = << result >>, !.calls.save = @ + 1]

\* The profile every calibration saves, were the accelerometer's body copied.
SavedKindCopied(kind) == "accelerometer"

\* The profile auto_calibrate_<kind> saves (lines 189, 222, 241).
SavedKind(kind) == kind

\* The call auto_calibrate_<kind>() on a constructed controller.
InitCal ==
    \E kind \in Kinds, mode0 \in PriorModes, n \in 0..MaxPolls :
        /\ Construct(DefaultConfig, [ImuInit(0, 0) EXCEPT !.mode = mode0, !.polls_left = n])
        /\ pc = "cal_call"
        /\ loc = [op |-> "calibrate", kind |-> kind]

\* old_mode = self.imu.prepare_calibration()
CalPrepare ==
    /\ pc = "cal_call"
    /\ imu' = imu_prepare_calibration(imu)
    /\ loc' = [op |-> "calibrate", kind |-> loc.kind, old_mode |-> imu.mode]
    /\ pc' = "cal_prepared"
    /\ hist' = Called("cal_prepare", <<>>)
    /\ UNCHANGED << clock, deadzone, new_azimuth, new_elevation, azimuth_pid, elevation_pid,
                    pid_config, timer_armed, azimuth, elevation, duty >>

\* The first poll, start = time.time(), and for the magnetometer the two
\* counts and the elevation servo commanded to its minimum.  The record of
\* the poll notes the time the confidence last changed (since), the
\* positions commanded (cmds), and how many azimuth positions (az_count) and
\* elevation positions (el_count) the raster has visited in its current row
\* and its current cycle.
CalFirstPoll ==
    /\ pc = "cal_prepared"
    /\ \E level \in PollLevels(imu) :
          /\ imu' = imu_polled(imu, level)
          /\ loc' = [op |-> "calibrate", kind |-> loc.kind, old_mode |-> loc.old_mode,
                     level |-> level, prev_level |-> level, start |-> clock,
                     count |-> 0, count_2 |-> 0]
          /\ hist' = Called("cal_poll",
                            [kind |-> loc.kind, level |-> level, perturbed |-> FALSE,
                             quiet |-> 0, since |-> clock,
                             cmds |-> IF loc.kind = "magnetometer"
                                      THEN << << "elevation", elevation.min >> >> ELSE <<>>,
                             advanced |-> FALSE, az_count |-> 0, el_count |-> 1,
                             el_cycle |-> 0])
    /\ elevation' = IF loc.kind = "magnetometer"
                    THEN servo_set_position(elevation, elevation.min) ELSE elevation
    /\ pc' = "cal_loop"
    /\ UNCHANGED << clock, deadzone, new_azimuth, new_elevation, azimuth_pid, elevation_pid,
                    pid_config, timer_armed, azimuth, duty >>

\* Whether the loop body perturbs the platform on this pass.
Perturbs(l) == l.kind # "gyroscope" /\ clock - l.start > PerturbInterval

\* The raster's test against the nominal maximum in place of the servo's.
RasterWrapsNominal(count, lo, hi) == count + lo > NominalMax

\* if count + min > max (lines 209 and 211)
RasterWraps(count, lo, hi) == count + lo > hi

\* The magnetometer's raster, lines 207-214: the servos and the two counts
\* after one perturbation, and the positions it commanded.
Raster(l, az, el) ==
    LET az1 == servo_set_position(az, az.min + l.count)
        count == l.count + IntDiv(az.max - az.min, RasterSteps)
        wraps == RasterWraps(count, az.min, az.max)
        c2 == l.count_2 + IntDiv(el.max - el.min, RasterSteps)
        count_2 == IF RasterWraps(c2, el.min, el.max) THEN 0 ELSE c2
    IN  IF wraps
        THEN [az |-> az1, el |-> servo_set_position(el, el.min + count_2),
              count |-> 0, count_2 |-> count_2, wraps |-> TRUE,
              cmds |-> << << "azimuth", az.min + l.count >>,
                          << "elevation", el.min + count_2 >> >>]
        ELSE [az |-> az1, el |-> el, count |-> count, count_2 |-> l.count_2,
              wraps |-> FALSE, cmds |-> << << "azimuth", az.min + l.count >> >>]

\* One pass of the while loop: the perturbation when it is due, then a poll.
CalLoop ==
    /\ pc = "cal_loop"
    /\ loc.level < FullConfidence
    /\ LET perturbed == Perturbs(loc)
           magnet == loc.kind = "magnetometer"
           random == perturbed /\ ~magnet
       IN  \E level \in PollLevels(imu),
              p_el \in (IF random THEN elevation.min..elevation.max ELSE {elevation.min}),
              p_az \in (IF random THEN azimuth.min..azimuth.max ELSE {azimuth.min}) :
             LET r == Raster(loc, azimuth, elevation)
                 h == hist.arg
                 l1 == IF ~perturbed THEN loc
                       ELSE IF magnet
                       THEN [loc EXCEPT !.count = r.count, !.count_2 = r.count_2,
                                        !.start = clock]
                       ELSE [loc EXCEPT !.start = clock]
                 advanced == perturbed /\ magnet /\ r.wraps
                 az_before == IF h.advanced THEN 0 ELSE h.az_count
                 restarted == advanced /\ r.cmds[2][2] = elevation.min
             IN  /\ elevation' = IF ~perturbed THEN elevation
                                 ELSE IF magnet THEN r.el
                                 ELSE servo_set_position(elevation, p_el)
                 /\ azimuth' = IF ~perturbed THEN azimuth
                               ELSE IF magnet THEN r.az
                               ELSE servo_set_position(azimuth, p_az)
                 /\ imu' = imu_polled(imu, level)
                 /\ loc' = [l1 EXCEPT !.level = level, !.prev_level = level]
                 /\ hist' = Called("cal_poll",
                      [kind |-> loc.kind, level |-> level, perturbed |-> perturbed,
                       quiet |-> clock - h.since,
                       since |-> IF level # loc.prev_level THEN clock ELSE h.since,
                       cmds |-> IF ~perturbed THEN <<>>
                                ELSE IF magnet THEN r.cmds
                                ELSE << << "elevation", p_el >>, << "azimuth", p_az >> >>,
                       advanced |-> advanced,
                       az_count |-> IF perturbed /\ magnet THEN az_before + 1 ELSE az_before,
                       el_count |-> IF restarted THEN 1
                                    ELSE IF advanced THEN h.el_count + 1 ELSE h.el_count,
                       el_cycle |-> IF restarted THEN h.el_count ELSE 0])
    /\ UNCHANGED << clock, deadzone, new_azimuth, new_elevation, azimuth_pid, elevation_pid,
                    pid_config, timer_armed, pc, duty >>

\* The loop is over: self.imu.mode(old_mode)
CalRestore ==
    /\ pc = "cal_loop"
    /\ ~(loc.level < FullConfidence)
    /\ imu' = imu_mode(imu, loc.old_mode)
    /\ pc' = "cal_restored"
    /\ hist' = Called("cal_restore", <<>>)
    /\ UNCHANGED << clock, deadzone, new_azimuth, new_elevation, azimuth_pid, elevation_pid,
                    pid_config, timer_armed, azimuth, elevation, loc, duty >>

\* return self.imu.save_<kind>_calibration()
CalCommit ==
    /\ pc = "cal_restored"
    /\ \E result \in BOOLEAN :
          /\ imu' = imu_save_calibration(imu, SavedKind(loc.kind), result)
          /\ hist' = Called("calibrated", [kind |-> loc.kind, ret |-> result])
    /\ pc' = "idle"
    /\ loc' = NoLocals
    /\ UNCHANGED << clock, deadzone, new_azimuth, new_elevation, azimuth_pid, elevation_pid,
                    pid_config, timer_armed, azimuth, elevation, duty >>

\* A unit of time goes by.
TimePasses ==
    /\ clock < MaxClock
    /\ clock' = clock + 1
    /\ UNCHANGED << deadzone, new_azimuth, new_elevation, azimuth_pid, elevation_pid,
                    pid_config, timer_armed, azimuth, elevation, imu, pc, loc, duty, hist >>

CalNext ==
    \/ CalPrepare
    \/ CalFirstPoll
    \/ CalLoop
    \/ CalRestore
    \/ CalCommit

NextCal ==
    \/ CalNext
    \/ TimePasses

\* The command context runs the procedure on: it is never held up for ever.
SpecCal == InitCal /\ [][NextCal]_vars /\ WF_vars(CalNext)

\* ------------------------------------------------- the magnetometer's raster
\* auto_calibrate_magnetometer on servos of several ranges, with a sensor that
\* stays at 0 for RasterPolls polls, long enough for the raster to come
\* round; the time between two perturbations goes by in one step.

RasterRanges == {<< 0, 0 >>, << 0, 1 >>, << 0, 8 >>, << 5, 21 >>}

InitRaster ==
    \E el \in RasterRanges, az \in RasterRanges :
        /\ ConstructWith(DefaultConfig, [ImuInit(0, 0) EXCEPT !.polls_left = RasterPolls,
                                                              !.steady = TRUE],
                         ServoInit(el[1], el[2]), ServoInit(az[1], az[2]))
        /\ pc = "cal_call"
        /\ loc = [op |-> "calibrate", kind |-> "magnetometer"]

\* Time goes by until the next perturbation is due.
IntervalElapses ==
    /\ pc = "cal_loop"
    /\ loc.level < FullConfidence
    /\ ~Perturbs(loc)
    /\ clock' = loc.start + PerturbInterval + 1
    /\ UNCHANGED << deadzone, new_azimuth, new_elevation, azimuth_pid, elevation_pid,
                    pid_config, timer_armed, azimuth, elevation, imu, pc, loc, duty, hist >>

NextRaster ==
    \/ CalNext
    \/ IntervalElapses

SpecRaster == InitRaster /\ [][NextRaster]_vars

\* ------------------------------------------------- the setpoint store alone
\* The command context alone: orient, the setters, start and stop, with a
\* sensor that can read an azimuth between the two ends of the arc.

StoreAzReadings == {30, 100, 300}

StoreInit ==
    /\ \E az0 \in StoreAzReadings : Construct(DefaultConfig, ImuInit(az0, 0))
    /\ pc = "idle"
    /\ loc = NoLocals

\* The platform turns: the azimuth reading changes.
StoreSensorChange ==
    /\ \E az \in StoreAzReadings :
          /\ az # imu.azimuth
          /\ imu' = [imu EXCEPT !.azimuth = az]
    /\ hist' = Called("sensor", <<>>)
    /\ UNCHANGED << clock, deadzone, new_azimuth, new_elevation, azimuth_pid, elevation_pid,
                    pid_config, timer_armed, azimuth, elevation, pc, loc, duty >>

NextStore ==
    \/ SetAzimuth
    \/ SetElevation
    \/ SetCoordinates
    \/ StartRead
    \/ StartArm
    \/ Stop
    \/ StoreSensorChange
    \/ OrientBegin
    \/ OrientReadMin
    \/ OrientFinish

SpecStore == StoreInit /\ [][NextStore]_vars

\* ======================================================================
\* Properties of the setpoint store, orient() and the PID loop
\* ======================================================================

\* Whether x lies strictly inside an interval of the deadzone dz.
StrictlyInside(dz, x) == \E k \in DOMAIN dz : dz[k][1] < x /\ x < dz[k][2]

\* C1: set_azimuth(x) leaves the azimuth setpoint unchanged when no deadzone
\* has been computed yet or x lies strictly inside a deadzone interval, and
\* makes the setpoint exactly x in every other case (endpoints included).
C1_SetAzimuthGate ==
    [][\A x \in AzCommands :
         (hist'.last = "set_azimuth" /\ hist'.arg = << x >>) =>
            new_azimuth' = IF deadzone = NoDeadzone \/ StrictlyInside(deadzone, x)
                           THEN new_azimuth ELSE x]_vars

\* set_azimuth(30) was accepted at the endpoint of the deadzone (30, 300)
\* while the setpoint before it was not 30.
C1_Witness ==
    /\ hist.last = "set_azimuth"
    /\ hist.arg = << 30 >>
    /\ deadzone = << << 30, 300 >> >>
    /\ new_azimuth = 30
    /\ azimuth_pid.setpoint # 30

\* C2: orient() commands the azimuth servo to its minimum bound and reads
\* min_azimuth, commands it to its maximum bound and reads max_azimuth, and
\* stores and returns [(min_azimuth, 360), (0, max_azimuth)] when
\* min_azimuth > max_azimuth and [(min_azimuth, max_azimuth)] otherwise;
\* readings 300, 30 give [(300,360),(0,30)] and 10, 350 give [(10,350)].
C2_Orient ==
    [][/\ (pc = "idle" /\ pc' = "orient_min") =>
             /\ loc'.min_cmd = azimuth.min
             /\ azimuth'.pos = azimuth.min
       /\ (pc = "orient_min" /\ pc' = "orient_max") =>
             /\ loc'.min_azimuth = imu.azimuth
             /\ loc'.max_cmd = azimuth.max
             /\ azimuth'.pos = azimuth.max
       /\ (pc = "orient_max" /\ pc' = "idle") =>
             LET r == hist'.arg
             IN  /\ hist'.last = "orient"
                 /\ r.min_azimuth = loc.min_azimuth
                 /\ r.max_azimuth = imu.azimuth
                 /\ r.ret = deadzone'
                 /\ deadzone' = IF r.min_azimuth > r.max_azimuth
                                THEN << << r.min_azimuth, 360 >>, << 0, r.max_azimuth >> >>
                                ELSE << << r.min_azimuth, r.max_azimuth >> >>
       /\ OrientDeadzone(300, 30) = << << 300, 360 >>, << 0, 30 >> >>
       /\ OrientDeadzone(10, 350) = << << 10, 350 >> >>]_vars

\* orient() has returned the wrapped deadzone for the readings 300 then 30.
C2_Witness ==
    /\ hist.last = "orient"
    /\ hist.arg.min_azimuth = 300
    /\ hist.arg.max_azimuth = 30
    /\ hist.arg.ret = << << 300, 360 >>, << 0, 30 >> >>
    /\ deadzone = hist.arg.ret

\* C3: set_elevation(e) always sets the elevation setpoint to e, and
\* set_coordinates(az, el) sets the elevation setpoint to el even when the
\* azimuth is rejected, in which case the azimuth setpoint alone is unchanged.
C3_ElevationUngated ==
    [][/\ \A e \in ElCommands :
            (hist'.last = "set_elevation" /\ hist'.arg = << e >>) =>
               /\ new_elevation' = e
               /\ new_azimuth' = new_azimuth
       /\ \A x \in AzCommands, e \in ElCommands :
            (hist'.last = "set_coordinates" /\ hist'.arg = << x, e >>) =>
               /\ new_elevation' = e
               /\ (deadzone = NoDeadzone \/ StrictlyInside(deadzone, x)) =>
                      new_azimuth' = new_azimuth]_vars

\* set_coordinates(100, 90) with 100 inside the deadzone (30, 300): the
\* elevation setpoint is 90, the azimuth setpoint is not 100.
C3_Witness ==
    /\ hist.last = "set_coordinates"
    /\ hist.arg = << 100, 90 >>
    /\ deadzone = << << 30, 300 >> >>
    /\ new_elevation = 90
    /\ new_azimuth # 100
    /\ elevation_pid.setpoint # 90

\* C9: after stop() has returned and until start() is called again, no
\* control tick executes.
C9_NoTickAfterStop == hist.stopped => hist.last # "tick"

\* The loop has run, stop() has returned, and time has passed since (the
\* readings have changed).
C9_Witness ==
    /\ hist.stopped
    /\ hist.last = "sensor"
    /\ duty # <<>>
    /\ pc = "idle"

\* C10: when start() returns, both setpoints and both PID setpoints are the
\* readings taken during that call, whatever they were before, and they were
\* written before the timer was armed; the first tick after it, with the
\* readings unchanged, sees zero error on both axes.
C10_StartOverwrites ==
    [][/\ (pc = "idle" /\ pc' = "start_arm") =>
             /\ loc'.azimuth = imu.azimuth
             /\ loc'.elevation = imu.elevation
             /\ timer_armed' = timer_armed
       /\ pc' = "start_arm" =>
             /\ new_azimuth' = loc'.azimuth
             /\ new_elevation' = loc'.elevation
       /\ (pc = "start_arm" /\ pc' = "idle") =>
             /\ hist'.last = "start"
             /\ hist'.arg = << loc.azimuth, loc.elevation >>
             /\ timer_armed'
             /\ new_azimuth' = loc.azimuth
             /\ new_elevation' = loc.elevation
             /\ azimuth_pid'.setpoint = loc.azimuth
             /\ elevation_pid'.setpoint = loc.elevation
       /\ (hist.last = "start" /\ hist'.last = "tick"
             /\ hist.arg = << imu.azimuth, imu.elevation >>) =>
             /\ azimuth_pid'.setpoint - imu.azimuth = 0
             /\ elevation_pid'.setpoint - imu.elevation = 0
             /\ duty' = [el |-> 0, az |-> 0]]_vars

\* start() has just returned with setpoints that differ from the ones
\* commanded before it, and the first tick has run with no correction.
C10_Witness ==
    /\ hist.last = "tick"
    /\ duty = [el |-> 0, az |-> 0]
    /\ new_azimuth = 300
    /\ new_elevation = 45
    /\ azimuth_pid.last_input = << 300 >>
    /\ elevation_pid.last_input = << 45 >>
    /\ deadzone = << << 30, 300 >> >>

\* C4 (as claimed): every tick's step, on the elevation and on the azimuth
\* actuator alike, lies within the output_limits (min, max).
C4_StepsWithinLimits ==
    duty # <<>> =>
        /\ pid_config.limits[1] <= duty.el /\ duty.el <= pid_config.limits[2]
        /\ pid_config.limits[1] <= duty.az /\ duty.az <= pid_config.limits[2]

\* C4 (amended): every tick's elevation step lies within (min, max), and
\* every tick's azimuth step, which is the negated correction, lies within
\* (-max, -min).
C4_StepsWithinSignedLimits ==
    duty # <<>> =>
        /\ pid_config.limits[1] <= duty.el /\ duty.el <= pid_config.limits[2]
        /\ -pid_config.limits[2] <= duty.az /\ duty.az <= -pid_config.limits[1]

\* The elevation integral has wound up to the limit over several ticks of a
\* constant error of one degree, and the tick issued steps at the limits.
C4_Witness ==
    /\ hist.last = "tick"
    /\ pid_config = SkewConfig
    /\ elevation_pid.setpoint - elevation_pid.last_input[1] = 1
    /\ elevation_pid.integral = 2 * pid_config.limits[2]
    /\ duty.el = pid_config.limits[2]
    /\ duty.az = -pid_config.limits[2]

\* ======================================================================
\* Properties of get_delta
\* ======================================================================

\* C8: for all angles a, b of [0, 360), get_delta(a, b) = get_delta(b, a) =
\* min(|a - b|, 360 - |a - b|), which lies in [0, 180]; get_delta(350, 10) = 20
\* and get_delta(10, 20) = 10.
C8_DeltaShortestArc ==
    hist.last = "get_delta" =>
        LET a == hist.arg.current
            b == hist.arg.prev
            r == hist.arg.ret
            straight == IF a >= b THEN a - b ELSE b - a
            around == 360 - straight
        IN  /\ r = (IF straight <= around THEN straight ELSE around)
            /\ r = get_delta(b, a)
            /\ 0 <= r /\ r <= 180
            /\ get_delta(350, 10) = 20
            /\ get_delta(10, 20) = 10

\* get_delta(10, 350) has returned 20: the arc through 0, with the smaller
\* angle first.
C8_Witness ==
    /\ hist.last = "get_delta"
    /\ hist.arg.current = 10
    /\ hist.arg.prev = 350
    /\ hist.arg.ret = 20

\* ======================================================================
\* Properties of the servo range sweeps
\* ======================================================================

\* The servo a finished sweep step was about.
SweptServo == IF hist.arg.axis = "elevation" THEN elevation ELSE azimuth

\* C5 (as claimed): the sweep with the default parameters against the
\* simulated sensor ends with min_us = 600 and max_us = 3400.
C5_SimBounds600 ==
    (pc = "idle" /\ hist.last # "init") =>
        /\ hist.last = "sweep_return"
        /\ SweptServo.min_us = << 600 >>
        /\ SweptServo.max_us = << 3400 >>

\* C5 (amended): that sweep ends with min_us = 700 and max_us = 3400: the
\* first motion at 500 only sets first_move, the step at 600 confirms it and
\* records 600 + 100.
C5_SimBounds700 ==
    (pc = "idle" /\ hist.last # "init") =>
        /\ hist.last = "sweep_return"
        /\ hist.arg.i = 3500
        /\ SweptServo.min_us = << 700 >>
        /\ SweptServo.max_us = << 3400 >>

\* The sweep against the simulated sensor has returned from the value 3500.
C5_Witness ==
    /\ pc = "idle"
    /\ hist.last = "sweep_return"
    /\ hist.arg.axis = "azimuth"
    /\ hist.arg.i = 3500
    /\ azimuth.max_us = << 3400 >>
    /\ azimuth.min_us # <<>>

\* C7: the bounds of each servo satisfy min < max in every state, and a run
\* that has recorded a refined minimum and a refined maximum has
\* min_us < max_us.
C7_BoundsOrdered ==
    /\ elevation.min < elevation.max
    /\ azimuth.min < azimuth.max
    /\ hist.last = "sweep_return" => SweptServo.min_us[1] < SweptServo.max_us[1]

\* ======================================================================
\* Properties of the sensor calibrations
\* ======================================================================

\* C6: for each sensor kind and every sensor whose polled confidence
\* reaches 3 after finitely many polls, the calibration returns, having
\* called prepare_calibration once, restored the fusion mode once with the
\* mode prepare_calibration returned, and committed once for that kind, the
\* restore before the commit and neither before a poll returned 3; the
\* return value is the commit result.
C6_CalibrationConverges ==
    /\ [](hist.last = "calibrated" =>
            /\ imu.calls.prepare = 1
            /\ imu.calls.mode = 1
            /\ imu.mode_arg = imu.prepare_ret
            /\ imu.mode = imu.prepare_ret[1]
            /\ imu.calls.save = 1
            /\ imu.saved = << hist.arg.kind >>
            /\ << hist.arg.ret >> = imu.save_result)
    /\ [][/\ imu'.calls.mode > imu.calls.mode =>
                imu.status = 3 /\ imu.calls.poll > 0 /\ imu.calls.save = 0
          /\ imu'.calls.save > imu.calls.save =>
                imu.status = 3 /\ imu.calls.poll > 0 /\ imu.calls.mode = 1]_vars
    /\ <>(hist.last = "calibrated" /\ pc = "idle")

\* The gyroscope calibration has returned after a third poll, the first to
\* report 3, with the mode the sensor was in before.
C6_Witness ==
    /\ hist.last = "calibrated"
    /\ hist.arg.kind = "gyroscope"
    /\ imu.calls.poll = 3
    /\ imu.mode = "compass"
    /\ imu.saved = << "gyroscope" >>

\* ======================================================================
\* Properties of the two contexts together
\* ======================================================================

\* The procedures that calibrate: orient, the servo range sweeps, the sensor
\* calibrations.
CalibrationInProgress == loc.op \in {"orient", "sweep", "calibrate"}

\* C11: in every reachable state, no calibration procedure is in progress
\* while the periodic control timer is armed.
C11_NoCalibrationWhileArmed == ~(timer_armed /\ CalibrationInProgress)

\* C12: whenever the deadzone has been computed, the stored azimuth setpoint
\* does not lie strictly inside any interval of the current deadzone.
C12_SetpointOutsideDeadzone ==
    deadzone # NoDeadzone => ~StrictlyInside(deadzone, new_azimuth)

\* ======================================================================
\* Further properties of the servo range sweeps
\* ======================================================================

\* A pass of the loop body has just run.
SweepStepped == hist.last \in {"sweep_step", "sweep_return", "sweep_exhausted"}

\* C13: for every step size us, the refined minimum recorded when motion is
\* confirmed at the value i is i + us, and the refined maximum recorded when
\* stop-motion is accepted at the value j is j - us.
C13_MarginIsStep ==
    /\ (SweepStepped /\ hist.arg.branch = "moving") =>
            SweptServo.min_us = << hist.arg.i + hist.arg.us >>
    /\ hist.last = "sweep_return" =>
            SweptServo.max_us = << hist.arg.i - hist.arg.us >>

\* C14: a sweep that runs through the whole range without accepting a
\* stop-motion step has recorded neither a refined minimum nor a refined
\* maximum, and returns normally.
C14_ExhaustedUnrefined ==
    hist.last = "sweep_exhausted" =>
        /\ SweptServo.min_us = <<>>
        /\ SweptServo.max_us = <<>>
        /\ pc = "idle"

\* The servo across from the swept one.
CrossAxis(axis) == IF axis = "elevation" THEN "azimuth" ELSE "elevation"
CrossServo(axis) == IF axis = "elevation" THEN azimuth ELSE elevation

\* C15: before the sweep starts, the bounds of the swept servo are 0..4095
\* and the cross servo has been commanded to the midpoint of its own range;
\* the baseline reading is taken only after that.
C15_CrossAxisToMidpoint ==
    /\ hist.last = "sweep_begin" =>
          /\ SweptServo.min = 0 /\ SweptServo.max = 4095
          /\ \E k \in DOMAIN hist.arg.commanded :
                LET x == CrossServo(hist.arg.axis)
                IN  hist.arg.commanded[k] =
                        << CrossAxis(hist.arg.axis), x.min + IntDiv(x.max - x.min, 2) >>
          /\ pc = "sweep_settle"
    /\ hist.last = "sweep_baseline" => pc # "sweep_call" /\ pc # "sweep_settle"
    /\ pc = "sweep_settle" => hist.last = "sweep_begin"

\* C19: a sweep terminates for every step size and every sequence of
\* readings, transients at every step included: the value commanded goes up
\* by us at each step, and stays within range(0, 4095, us).
C19_SweepTerminates ==
    /\ <>(pc = "idle" /\ hist.last \in {"sweep_return", "sweep_exhausted"})
    /\ [](pc = "sweep_loop" => loc.i % loc.us = 0 /\ 0 <= loc.i /\ loc.i < 4095)
    /\ [][(pc = "sweep_loop" /\ SweepStepped) =>
                hist'.arg.i = hist.arg.i + hist.arg.us]_vars

\* A step whose re-check saw motion again has been followed by the step at
\* the next value, and the sweep with steps of 1000 has run out at 4000.
C19_Witness ==
    /\ hist.last = "sweep_exhausted"
    /\ hist.arg.transient
    /\ hist.arg.us = 1000
    /\ hist.arg.i = 4000

\* ======================================================================
\* Properties of the tick's use of the shared state
\* ======================================================================

\* C18: every tick, wherever it interrupts the command context, leaves the
\* azimuth setpoint, the elevation setpoint and the deadzone as they were,
\* and the setpoints it hands to the two PIDs are the values stored at that
\* moment; of the rest it changes only the PIDs, the servos' positions and
\* the steps it issued.
C18_TickOnlyReads ==
    [][hist'.last = "tick" =>
          /\ new_azimuth' = new_azimuth
          /\ new_elevation' = new_elevation
          /\ deadzone' = deadzone
          /\ azimuth_pid'.setpoint = new_azimuth
          /\ elevation_pid'.setpoint = new_elevation
          /\ UNCHANGED << pid_config, timer_armed, imu, pc, loc, clock >>]_vars

\* A tick has come in the middle of orient(), after set_azimuth(330) was
\* accepted, and has handed 330 to the azimuth PID.
C18_Witness ==
    /\ hist.last = "tick"
    /\ pc = "orient_max"
    /\ new_azimuth = 330
    /\ azimuth_pid.setpoint = 330
    /\ elevation_pid.setpoint = new_elevation
    /\ deadzone # NoDeadzone

\* ======================================================================
\* Properties of the perturbations during sensor calibration
\* ======================================================================

\* The servo a command of a calibration pass went to.
CommandedServo(cmd) == IF cmd[1] = "elevation" THEN elevation ELSE azimuth

\* Every position the last pass commanded lies within its servo's bounds.
CommandsWithinBounds ==
    \A k \in DOMAIN hist.arg.cmds :
        LET cmd == hist.arg.cmds[k]
        IN  CommandedServo(cmd).min <= cmd[2] /\ cmd[2] <= CommandedServo(cmd).max

\* C16: the accelerometer calibration commands a random position on both
\* axes only when the polled confidence has been unchanged for more than 2
\* time units before the command, and every such position lies within the
\* servo's [min_position, max_position].
C16_PerturbOnlyWhenQuiet ==
    (hist.last = "cal_poll" /\ hist.arg.kind = "accelerometer" /\ hist.arg.perturbed) =>
        /\ hist.arg.quiet > 2
        /\ Len(hist.arg.cmds) = 2
        /\ CommandsWithinBounds

\* The step between two positions of the magnetometer's raster on a servo.
RasterStep(servo) == IntDiv(servo.max - servo.min, RasterSteps)

\* C17: the magnetometer's perturbations form a raster: exactly 8 evenly
\* spaced azimuth positions, the first at the azimuth minimum, are commanded
\* between two elevation advances, and the elevation takes exactly 8 evenly
\* spaced positions before it is back at its minimum.
C17_RasterEightByEight ==
    (hist.last = "cal_poll" /\ hist.arg.kind = "magnetometer" /\ hist.arg.perturbed) =>
        /\ hist.arg.cmds[1] =
              << "azimuth", azimuth.min + (hist.arg.az_count - 1) * RasterStep(azimuth) >>
        /\ hist.arg.advanced =>
              /\ hist.arg.az_count = 8
              /\ hist.arg.cmds[2] =
                    << "elevation",
                       elevation.min + (hist.arg.el_count - 1) * RasterStep(elevation) >>
        /\ hist.arg.el_cycle # 0 => hist.arg.el_cycle = 8

\* C20: every position the magnetometer calibration commands to either
\* servo lies within that servo's [min_position, max_position], whatever
\* the bounds and however many perturbations there have been.
C20_RasterWithinBounds ==
    (hist.last = "cal_poll" /\ hist.arg.kind = "magnetometer") => CommandsWithinBounds

\* The raster has commanded the azimuth servo of range 5..21 to its maximum
\* and, on the same pass, taken the elevation servo of range 0..8 back from
\* its maximum to its minimum.
C20_Witness ==
    /\ hist.last = "cal_poll"
    /\ hist.arg.kind = "magnetometer"
    /\ azimuth.min = 5 /\ azimuth.max = 21
    /\ elevation.min = 0 /\ elevation.max = 8
    /\ hist.arg.cmds = << << "azimuth", 21 >>, << "elevation", 0 >> >>
    /\ hist.arg.el_cycle > 1

====
